---------------------------- MODULE Spec2Model ----------------------------
(***************************************************************************)
(* The JSON parser of the repository: the character lexer (JLexer), the    *)
(* grammar validator on top of it (JPartialParser) and the tree builder    *)
(* (JParser).  A source text is a sequence of characters, every character  *)
(* a one-character string; positions are the byte offsets that             *)
(* str::char_indices yields.                                               *)
(***************************************************************************)
EXTENDS Integers, Sequences, FiniteSets, TLC

VARIABLES
    source,     \* JLexer.source: the text, fixed for a run
    doc,        \* <<d>>, d the document the text was rendered from, or <<>>
    lexer,      \* a JLexer pulled on its own: [iter, last_tk]
    lexed,      \* every Option the lexer pulled on its own has returned so far
    pp,         \* the JPartialParser: [lexer, expect, object_cnt, count]
    last,       \* the latest JPartialParser::next call: what it pulled, what it returned
    items,      \* every Some(..) the JPartialParser has returned so far
    pc,         \* JParser::parse: "parse", "name", "value", "returned", "panicked"
    stack,      \* parse_object activations, innermost last: [object, name]
    result      \* what JParser::parse returned

vars == <<source, doc, lexer, lexed, pp, last, items, pc, stack, result>>

Max(S) == CHOOSE x \in S : \A y \in S : y <= x

Min(S) == CHOOSE x \in S : \A y \in S : x <= y

\* F(x), with x evaluated once: let v = x; F(v).
Let(x, F(_)) == CHOOSE y \in {F(v) : v \in {x}} : TRUE

(***************************************************************************)
(* Characters.                                                             *)
(***************************************************************************)
\* Letters of the model's texts (char::is_alphabetic); "é" is U+00E9.
Letters == {"a", "b", "e", "f", "l", "n", "r", "s", "t", "u", "x", "F", "é"}

Digits == {"0", "1", "5", "7"}

DigitValue(c) == CASE c = "0" -> 0 [] c = "1" -> 1 [] c = "5" -> 5 [] c = "7" -> 7

\* char::len_utf8: "é" takes two bytes, every other character of the model one.
len_utf8(c) == IF c = "é" THEN 2 ELSE 1

is_alphabetic(c) == c \in Letters

is_whitespace(c) == c \in {" ", "\n", "\r", "\t"}

is_number(c) == c \in Digits \cup {"."}

is_structural(c) == is_whitespace(c) \/ c \in {"{", "[", "]", "}", ":", ",", "\""}

\* The pattern of try_lex_string taking the quotation mark for content.
is_not_quote_any(c) == c = c

is_not_quote(c) == c # "\""

(***************************************************************************)
(* Bytes of a text.                                                        *)
(***************************************************************************)
\* The bytes of the characters a..b of src: the sum of their len_utf8, each
\* of which is 1 or 2.
bytes(src, a, b) == (b - a + 1) + Cardinality({k \in a..b : len_utf8(src[k]) = 2})

(***************************************************************************)
(* Lexer tokens.                                                           *)
(***************************************************************************)
Token(k) == [k |-> k, s |-> <<>>, n |-> 0, d |-> 1]

StringContent(s) == [k |-> "StringContent", s |-> s, n |-> 0, d |-> 1]

UnknownToken(s) == [k |-> "UnknownToken", s |-> s, n |-> 0, d |-> 1]

NumberInteger(n) == [k |-> "NumberInteger", s |-> <<>>, n |-> n, d |-> 1]

\* An f64 as the decimal fraction n / d, d the least power of ten.
NumberFloat(n, d) == [k |-> "NumberFloat", s |-> <<>>, n |-> n, d |-> d]

(***************************************************************************)
(* str::parse::<isize>() and str::parse::<f64>() on a run of digits and    *)
(* dots.                                                                   *)
(***************************************************************************)
RECURSIVE digits_value(_)
digits_value(ds) ==
    IF ds = <<>> THEN 0
    ELSE 10 * digits_value(SubSeq(ds, 1, Len(ds) - 1)) + DigitValue(ds[Len(ds)])

RECURSIVE pow10(_)
pow10(k) == IF k = 0 THEN 1 ELSE 10 * pow10(k - 1)

RECURSIVE normal_fraction(_, _)
\* n / d without the trailing zeros of the fraction: 150/10 is 15/1.
normal_fraction(n, d) ==
    IF d > 1 /\ n % 10 = 0 THEN normal_fraction(n \div 10, d \div 10) ELSE <<n, d>>

parse_isize(sl) ==
    IF sl # <<>> /\ \A k \in 1..Len(sl) : sl[k] \in Digits
    THEN [ok |-> TRUE, n |-> digits_value(sl)]
    ELSE [ok |-> FALSE, n |-> 0]

parse_f64(sl) ==
    LET dots == {k \in 1..Len(sl) : sl[k] = "."}
        ds   == SelectSeq(sl, LAMBDA c : c \in Digits)
        frac == IF dots = {} THEN 0 ELSE Len(sl) - Max(dots)
        nd   == normal_fraction(digits_value(ds), pow10(frac))
    IN  IF /\ Cardinality(dots) <= 1
           /\ ds # <<>>
           /\ \A k \in 1..Len(sl) : is_number(sl[k])
        THEN [ok |-> TRUE, n |-> nd[1], d |-> nd[2]]
        ELSE [ok |-> FALSE, n |-> 0, d |-> 1]

(***************************************************************************)
(* JLexer: [iter, last_tk].  The iterator iter over the text (CharIndices) *)
(* is [i, off]: it has passed i characters, which are off bytes; last_tk   *)
(* holds the two tokens returned latest.                                   *)
(***************************************************************************)
JLexer_new ==
    [iter |-> [i |-> 0, off |-> 0],
     last_tk |-> <<Token("NullToken"), Token("NullToken")>>]

\* MidLexerOutput, with the iterator it leaves behind; "panic" is an abort.
MidSome(tk, p, it) == [out |-> "some", tk |-> tk, p |-> p, iter |-> it]

MidNone(it) == [out |-> "none", tk |-> Token("NullToken"), p |-> 0, iter |-> it]

MidPanic(it) == [out |-> "panic", tk |-> Token("NullToken"), p |-> 0, iter |-> it]

\* iter.next() has been called n times more.
advance(src, it, n) ==
    [i |-> it.i + n, off |-> it.off + bytes(src, it.i + 1, it.i + n)]

crib_next(src, it) == IF it.i < Len(src) THEN <<src[it.i + 1]>> ELSE <<>>

check_if_next_is(src, it, c) == crib_next(src, it) = <<c>>

\* A fn(char) -> bool passed by name, applied to c.
call(f, c) ==
    CASE f = "is_number"     -> is_number(c)
      [] f = "is_structural" -> is_structural(c)
      [] f = "is_whitespace" -> is_whitespace(c)
      [] f = "is_alphabetic" -> is_alphabetic(c)
      [] f = "is_not_quote"  -> is_not_quote(c)

check_if_next_fits(src, it, pat) == crib_next(src, it) # <<>> /\ call(pat, src[it.i + 1])

\* The number of characters from the iterator on that all satisfy f_next.
run_length(src, it, f_next) ==
    Min({k \in (it.i + 1)..Len(src) : ~call(f_next, src[k])} \cup {Len(src) + 1}) - (it.i + 1)

\* Some((start, stop + 1)) or None, and the iterator afterwards: start is the
\* offset of the first character of the run, stop that of its last one.  A
\* first character that fits is passed before start is compared with 0.
seek_until(src, it, f_next) ==
    Let(run_length(src, it, f_next), LAMBDA n :
        IF (IF n > 0 THEN it.off ELSE 0) = 0
        THEN [some |-> FALSE, start |-> 0, stop |-> 0,
              iter |-> IF n > 0 THEN advance(src, it, 1) ELSE it]
        ELSE [some |-> TRUE, start |-> it.off,
              stop |-> advance(src, it, n - 1).off + 1,
              iter |-> advance(src, it, n)])

expects_string_content(lx) ==
    /\ lx.last_tk[2] = Token("StringToken")
    /\ ~(lx.last_tk[1].k = "StringContent" \/ lx.last_tk[1] = Token("StringToken"))

\* seek_until(iter, f_next).map(|(start, stop)| ..) from the iterator it, up
\* to the slice &source[start..stop]: [out, sl, p, iter], sl the characters
\* of the run and p its start.  The slice aborts unless stop is a character
\* boundary, the offset at which the iterator stands after the run.
seek_slice(src, it, f_next) ==
    Let(seek_until(src, it, f_next), LAMBDA r :
        IF ~r.some THEN [out |-> "none", sl |-> <<>>, p |-> 0, iter |-> r.iter]
        ELSE IF r.stop # r.iter.off
        THEN [out |-> "panic", sl |-> <<>>, p |-> 0, iter |-> r.iter]
        ELSE [out |-> "some", sl |-> SubSeq(src, it.i + 1, r.iter.i), p |-> r.start,
              iter |-> r.iter])

\* The MidLexerOutput of a slice r that the closure turns into the token tk.
mapped(r, tk) ==
    IF r.out = "some" THEN MidSome(tk, r.p, r.iter)
    ELSE IF r.out = "none" THEN MidNone(r.iter)
    ELSE MidPanic(r.iter)

try_lex_string(src, lx) ==
    Let(seek_slice(src, lx.iter, "is_not_quote"), LAMBDA r : mapped(r, StringContent(r.sl)))

number_token(sl) ==
    IF "." \in {sl[k] : k \in 1..Len(sl)}
    THEN IF parse_f64(sl).ok
         THEN NumberFloat(parse_f64(sl).n, parse_f64(sl).d)
         ELSE UnknownToken(sl)
    ELSE IF parse_isize(sl).ok
         THEN NumberInteger(parse_isize(sl).n)
         ELSE UnknownToken(sl)

try_lex_number(src, lx) ==
    Let(seek_slice(src, lx.iter, "is_number"), LAMBDA r : mapped(r, number_token(r.sl)))

try_string_token(src, lx, pat, tk) ==
    Let(seek_slice(src, lx.iter, "is_alphabetic"), LAMBDA r :
        mapped(r, IF r.sl = pat THEN tk ELSE UnknownToken(r.sl)))

\* The last branch of next(): whatever starts no token of JSON.
lex_unknown(src, lx) ==
    Let(seek_slice(src, lx.iter, "is_alphabetic"), LAMBDA r : mapped(r, UnknownToken(r.sl)))

structural_token(c) ==
    CASE c = "{" -> Token("ObjectBegin")
      [] c = "}" -> Token("ObjectEnd")
      [] c = "[" -> Token("ArrayBegin")
      [] c = "]" -> Token("ArrayEnd")
      [] c = ":" -> Token("NameSeparator")
      [] c = "," -> Token("ValueSeparator")
      [] c = "\"" -> Token("StringToken")

lex_structural_single(src, lx) ==
    IF lx.iter.i >= Len(src) THEN MidNone(lx.iter)
    ELSE LET c  == src[lx.iter.i + 1]
             p  == lx.iter.off
             it == advance(src, lx.iter, 1)
         IN  IF is_whitespace(c)
             THEN MidSome(Token("Whitespace"), p, it)
             ELSE IF is_structural(c)
                  THEN MidSome(structural_token(c), p, it)
                  ELSE MidPanic(it)

lex_structural(src, lx) ==
    IF lx.iter.i >= Len(src) THEN MidNone(lx.iter)
    ELSE LET c  == src[lx.iter.i + 1]
             p  == lx.iter.off
             it == advance(src, lx.iter, 1)
         IN  IF is_whitespace(c)
             THEN MidSome(Token("Whitespace"), p, seek_until(src, it, "is_whitespace").iter)
             ELSE IF is_structural(c)
                  THEN MidSome(structural_token(c), p, it)
                  ELSE MidPanic(it)

\* The branch of next() the lexer takes: a MidLexerOutput.
lex_branch(src, lx) ==
    IF expects_string_content(lx)
    THEN IF check_if_next_is(src, lx.iter, "\"")
         THEN lex_structural(src, lx)
         ELSE try_lex_string(src, lx)
    ELSE IF check_if_next_fits(src, lx.iter, "is_number")
         THEN try_lex_number(src, lx)
    ELSE IF check_if_next_fits(src, lx.iter, "is_structural")
         THEN lex_structural(src, lx)
    ELSE IF check_if_next_is(src, lx.iter, "t")
         THEN try_string_token(src, lx, <<"t", "r", "u", "e">>, Token("TrueToken"))
    ELSE IF check_if_next_is(src, lx.iter, "f")
         THEN try_string_token(src, lx, <<"f", "a", "l", "s", "e">>, Token("FalseToken"))
    ELSE IF check_if_next_is(src, lx.iter, "n")
         THEN try_string_token(src, lx, <<"n", "u", "l", "l">>, Token("NullToken"))
    ELSE lex_unknown(src, lx)

\* JLexer::next with the enumerate() offset passed on as it is, 0-based.
JLexer_next_zero_based(src, lx) ==
    Let(lex_branch(src, lx), LAMBDA mid :
        IF mid.out = "some"
        THEN [out |-> "some", tk |-> mid.tk, p |-> mid.p,
              lx |-> [iter |-> mid.iter, last_tk |-> <<lx.last_tk[2], mid.tk>>]]
        ELSE [out |-> mid.out, tk |-> mid.tk, p |-> 0,
              lx |-> [iter |-> mid.iter, last_tk |-> lx.last_tk]])

\* <JLexer as Iterator>::next: [out, tk, p, lx], lx the lexer afterwards.
JLexer_next(src, lx) ==
    Let(lex_branch(src, lx), LAMBDA mid :
        IF mid.out = "some"
        THEN [out |-> "some", tk |-> mid.tk, p |-> mid.p + 1,
              lx |-> [iter |-> mid.iter, last_tk |-> <<lx.last_tk[2], mid.tk>>]]
        ELSE [out |-> mid.out, tk |-> mid.tk, p |-> 0,
              lx |-> [iter |-> mid.iter, last_tk |-> lx.last_tk]])

(***************************************************************************)
(* Values of the grammar validator: JPartialValue, JPartialToken,          *)
(* UnexpTokenFeedb, JParseError.  Every record of a kind has the same      *)
(* fields; a field a variant does not carry holds a fixed filler.          *)
(***************************************************************************)
JPValue(t, s, n, d) == [t |-> t, s |-> s, n |-> n, d |-> d]

JPValue_String(s) == JPValue("String", s, 0, 1)

JPValue_Integer(n) == JPValue("Integer", <<>>, n, 1)

JPValue_Float(n, d) == JPValue("Float", <<>>, n, d)

JPValue_True == JPValue("True", <<>>, 0, 1)

JPValue_False == JPValue("False", <<>>, 0, 1)

JPValue_Null == JPValue("Null", <<>>, 0, 1)

JPartialToken_ObjectBegin == [t |-> "ObjectBegin", s |-> <<>>, v |-> JPValue_Null, a |-> <<>>]

JPartialToken_ObjectEnd == [t |-> "ObjectEnd", s |-> <<>>, v |-> JPValue_Null, a |-> <<>>]

JPartialToken_Array(a) == [t |-> "Array", s |-> <<>>, v |-> JPValue_Null, a |-> a]

JPartialToken_MemberName(s) == [t |-> "MemberName", s |-> s, v |-> JPValue_Null, a |-> <<>>]

JPartialToken_MemberValue(v) == [t |-> "MemberValue", s |-> <<>>, v |-> v, a |-> <<>>]

\* UnexpTokenFeedb::JLToken and UnexpTokenFeedb::JPExpect.
Feedb_JLToken(ltk) == [t |-> "JLToken", tk |-> ltk, ex |-> <<>>]

Feedb_JPExpect(vpe) == [t |-> "JPExpect", tk |-> Token("NullToken"), ex |-> vpe]

NoFeedb == [t |-> "none", tk |-> Token("NullToken"), ex |-> <<>>]

JParseError(e, p, found, expected, s) ==
    [e |-> e, p |-> p, found |-> found, expected |-> expected, s |-> s]

NoBeginningObject(p) == JParseError("NoBeginningObject", p, NoFeedb, NoFeedb, <<>>)

UnclosedObject(p) == JParseError("UnclosedObject", p, NoFeedb, NoFeedb, <<>>)

UnexpectedEnd(p) == JParseError("UnexpectedEnd", p, NoFeedb, NoFeedb, <<>>)

UnexpectedToken(p, found, expected) ==
    JParseError("UnexpectedToken", p, found, expected, <<>>)

JParseError_UnknownToken(p, s) == JParseError("UnknownToken", p, NoFeedb, NoFeedb, s)

NoError == JParseError("none", 0, NoFeedb, NoFeedb, <<>>)

\* unexpected_token!(pos, found, expect), found a lexer token.
unexpected_token(p, ltk, expect) ==
    UnexpectedToken(p, Feedb_JLToken(ltk), Feedb_JPExpect(expect))

(***************************************************************************)
(* JPartialParser: [lexer, expect, object_cnt, count], the lexer behind    *)
(* a filter that drops Whitespace and StringToken.                         *)
(***************************************************************************)
JPartialParser_new ==
    [lexer |-> JLexer_new, expect |-> <<"ObjectBegin">>, object_cnt |-> 0, count |-> 0]

\* The filter of JPartialParser::new dropping StringToken only.
filter_keeps_whitespace(ltk) == ltk.k # "StringToken"

\* The closure of the filter in JPartialParser::new.
filter_keeps(ltk) == ltk.k \notin {"Whitespace", "StringToken"}

RECURSIVE Filter_next(_, _)
\* <Filter<JLexer, _> as Iterator>::next: the first item the filter keeps, or
\* the first None of the lexer.
Filter_next(src, lx) ==
    Let(JLexer_next(src, lx), LAMBDA r :
        IF r.out = "some" /\ ~filter_keeps(r.tk) THEN Filter_next(src, r.lx) ELSE r)

\* was_expected with UnknownToken among the tokens that meet MemberValue.
expectation_met_unknown_value(exp, ltk) ==
    CASE exp = "ObjectBegin" -> ltk.k = "ObjectBegin"
      [] exp = "ObjectEnd"   -> ltk.k = "ObjectEnd"
      [] exp = "MemberName"  -> ltk.k = "StringContent"
      [] exp = "MemberValue" ->
            ltk.k \in {"ArrayBegin", "ObjectBegin", "StringContent", "NumberFloat",
                       "NumberInteger", "NullToken", "TrueToken", "FalseToken",
                       "UnknownToken"}

\* was_expected with a value-separator among the tokens that meet MemberName.
expectation_met_separator(exp, ltk) ==
    CASE exp = "ObjectBegin" -> ltk.k = "ObjectBegin"
      [] exp = "ObjectEnd"   -> ltk.k = "ObjectEnd"
      [] exp = "MemberName"  -> ltk.k \in {"StringContent", "ValueSeparator"}
      [] exp = "MemberValue" ->
            ltk.k \in {"ArrayBegin", "ObjectBegin", "StringContent", "NumberFloat",
                       "NumberInteger", "NullToken", "TrueToken", "FalseToken"}

\* One arm of the match in was_expected: the lexer token meets the expectation.
expectation_met(exp, ltk) ==
    CASE exp = "ObjectBegin" -> ltk.k = "ObjectBegin"
      [] exp = "ObjectEnd"   -> ltk.k = "ObjectEnd"
      [] exp = "MemberName"  -> ltk.k = "StringContent"
      [] exp = "MemberValue" ->
            ltk.k \in {"ArrayBegin", "ObjectBegin", "StringContent", "NumberFloat",
                       "NumberInteger", "NullToken", "TrueToken", "FalseToken"}

\* was_expected(..) is Ok(()).
was_expected(ps, ltk) == \E k \in 1..Len(ps.expect) : expectation_met(ps.expect[k], ltk)

do_we_expect(ps, exp) == \E k \in 1..Len(ps.expect) : ps.expect[k] = exp

\* next_shall_be content with whatever token comes next.
next_shall_be_any(src, ps, exp, p) ==
    Let(Filter_next(src, ps.lexer), LAMBDA next :
        IF next.out = "panic"
        THEN [out |-> "panic", err |-> NoError, ps |-> [ps EXCEPT !.lexer = next.lx]]
        ELSE IF next.out = "none"
        THEN [out |-> "err", err |-> UnexpectedEnd(p),
              ps |-> [ps EXCEPT !.lexer = next.lx]]
        ELSE [out |-> "ok", err |-> NoError, ps |-> [ps EXCEPT !.lexer = next.lx]])

\* [out, err, ps]: out is "ok", "err" or "panic".
next_shall_be(src, ps, exp, p) ==
    Let(Filter_next(src, ps.lexer), LAMBDA next :
        IF next.out = "panic"
        THEN [out |-> "panic", err |-> NoError, ps |-> [ps EXCEPT !.lexer = next.lx]]
        ELSE IF next.out = "none"
        THEN [out |-> "err", err |-> UnexpectedEnd(p),
              ps |-> [ps EXCEPT !.lexer = next.lx]]
        ELSE IF exp = next.tk
        THEN [out |-> "ok", err |-> NoError, ps |-> [ps EXCEPT !.lexer = next.lx]]
        ELSE [out |-> "err",
              err |-> UnexpectedToken(p, Feedb_JLToken(next.tk), Feedb_JLToken(exp)),
              ps |-> [ps EXCEPT !.lexer = next.lx]])

\* crib_if_next_is answering false whatever follows.
crib_if_next_is_never(src, ps, jlt) ==
    Let(Filter_next(src, ps.lexer), LAMBDA next :
        IF next.out = "panic" THEN "panic" ELSE "no")

\* "yes", "no" or "panic" (the lexer's clone aborts as the lexer would).
crib_if_next_is(src, ps, jlt) ==
    Let(Filter_next(src, ps.lexer), LAMBDA next :
        IF next.out = "panic" THEN "panic"
        ELSE IF next.out = "some" /\ next.tk = jlt THEN "yes" ELSE "no")

\* set_expect_after_member_value allowing the object to end after a
\* value-separator.
set_expect_after_member_value_lenient(src, ps) ==
    Let(crib_if_next_is(src, ps, Token("ValueSeparator")), LAMBDA crib :
        IF crib = "panic" THEN [panic |-> TRUE, ps |-> ps]
        ELSE IF crib = "yes"
        THEN [panic |-> FALSE,
              ps |-> [ps EXCEPT !.lexer = Filter_next(src, ps.lexer).lx,
                                !.expect = <<"MemberName", "ObjectEnd">>]]
        ELSE [panic |-> FALSE, ps |-> [ps EXCEPT !.expect = <<"ObjectEnd">>]])

\* set_expect_after_member_value taking the token it looks at from the
\* lexer whatever it is.
set_expect_after_member_value_greedy(src, ps) ==
    Let(crib_if_next_is(src, ps, Token("ValueSeparator")), LAMBDA crib :
        IF crib = "panic" THEN [panic |-> TRUE, ps |-> ps]
        ELSE IF crib = "yes"
        THEN [panic |-> FALSE,
              ps |-> [ps EXCEPT !.lexer = Filter_next(src, ps.lexer).lx,
                                !.expect = <<"MemberName">>]]
        ELSE [panic |-> FALSE,
              ps |-> [ps EXCEPT !.lexer = Filter_next(src, ps.lexer).lx,
                                !.expect = <<"ObjectEnd">>]])

\* [panic, ps].
set_expect_after_member_value(src, ps) ==
    Let(crib_if_next_is(src, ps, Token("ValueSeparator")), LAMBDA crib :
        IF crib = "panic" THEN [panic |-> TRUE, ps |-> ps]
        ELSE IF crib = "yes"
        THEN [panic |-> FALSE,
              ps |-> [ps EXCEPT !.lexer = Filter_next(src, ps.lexer).lx,
                                !.expect = <<"MemberName">>]]
        ELSE [panic |-> FALSE, ps |-> [ps EXCEPT !.expect = <<"ObjectEnd">>]])

\* What JPartialParser::next returns, and the parser afterwards.
PNone(ps) == [out |-> "none", tk |-> JPartialToken_ObjectBegin, p |-> 0, err |-> NoError, ps |-> ps]

PPanic(ps) == [out |-> "panic", tk |-> JPartialToken_ObjectBegin, p |-> 0, err |-> NoError, ps |-> ps]

POk(tk, p, ps) == [out |-> "ok", tk |-> tk, p |-> p, err |-> NoError, ps |-> ps]

PErr(err, ps) == [out |-> "err", tk |-> JPartialToken_ObjectBegin, p |-> 0, err |-> err, ps |-> ps]

\* A member value has been read: the lookahead, count += 1, Ok((tk, p)).
member_value_open(src, ps, tk, p) ==
    Let(set_expect_after_member_value(src, ps), LAMBDA s :
        IF s.panic THEN PPanic(s.ps)
        ELSE POk(tk, p, [s.ps EXCEPT !.expect = <<"MemberName", "MemberValue">>,
                                     !.count = @ + 1]))

member_value(src, ps, tk, p) ==
    Let(set_expect_after_member_value(src, ps), LAMBDA s :
        IF s.panic THEN PPanic(s.ps)
        ELSE POk(tk, p, [s.ps EXCEPT !.count = @ + 1]))

is_scalar(ltk) ==
    ltk.k \in {"StringContent", "NumberInteger", "NumberFloat", "TrueToken",
               "FalseToken", "NullToken"}

scalar_value(ltk) ==
    CASE ltk.k = "StringContent" -> JPValue_String(ltk.s)
      [] ltk.k = "NumberInteger" -> JPValue_Integer(ltk.n)
      [] ltk.k = "NumberFloat"   -> JPValue_Float(ltk.n, ltk.d)
      [] ltk.k = "TrueToken"     -> JPValue_True
      [] ltk.k = "FalseToken"    -> JPValue_False
      [] ltk.k = "NullToken"     -> JPValue_Null

RECURSIVE JPartialParser_next(_, _)
RECURSIVE array_elements(_, _, _)
\* The round leaving the loop on an element that is no scalar.
array_element_leaving(src, ps, array, ltk, pi) ==
    IF ~is_scalar(ltk)
    THEN [out |-> "done", err |-> NoError, array |-> array, ps |-> ps]
    ELSE Let(crib_if_next_is(src, ps, Token("ValueSeparator")), LAMBDA crib :
         IF crib = "panic"
         THEN [out |-> "panic", err |-> NoError, array |-> array, ps |-> ps]
         ELSE IF crib = "no"
         THEN [out |-> "done", err |-> NoError,
               array |-> Append(array, scalar_value(ltk)), ps |-> ps]
         ELSE Let(JPartialParser_next(src, ps), LAMBDA skipped :
              IF skipped.out = "panic"
              THEN [out |-> "panic", err |-> NoError, array |-> array,
                    ps |-> skipped.ps]
              ELSE array_elements(src, skipped.ps, Append(array, scalar_value(ltk)))))

\* The while-let loop of the ArrayBegin arm, one round from the element ltk
\* at pi on: the push, the lookahead, self.next() on a value-separator.
array_element(src, ps, array, ltk, pi) ==
    IF ~is_scalar(ltk)
    THEN [out |-> "err", err |-> unexpected_token(pi, ltk, ps.expect),
          array |-> array, ps |-> ps]
    ELSE Let(crib_if_next_is(src, ps, Token("ValueSeparator")), LAMBDA crib :
         IF crib = "panic"
         THEN [out |-> "panic", err |-> NoError, array |-> array, ps |-> ps]
         ELSE IF crib = "no"
         THEN [out |-> "done", err |-> NoError,
               array |-> Append(array, scalar_value(ltk)), ps |-> ps]
         ELSE Let(JPartialParser_next(src, ps), LAMBDA skipped :
              IF skipped.out = "panic"
              THEN [out |-> "panic", err |-> NoError, array |-> array,
                    ps |-> skipped.ps]
              ELSE array_elements(src, skipped.ps, Append(array, scalar_value(ltk)))))

\* The loop: [out, err, array, ps], out is "done" (the loop is left), "err"
\* (return unexpected_token!) or "panic".
array_elements(src, ps, array) ==
    Let(Filter_next(src, ps.lexer), LAMBDA next :
        IF next.out = "panic"
        THEN [out |-> "panic", err |-> NoError, array |-> array,
              ps |-> [ps EXCEPT !.lexer = next.lx]]
        ELSE IF next.out = "none"
        THEN [out |-> "done", err |-> NoError, array |-> array,
              ps |-> [ps EXCEPT !.lexer = next.lx]]
        ELSE Let([ps EXCEPT !.lexer = next.lx], LAMBDA ps1 :
                 array_element(src, ps1, array, next.tk, next.p)))

\* The ArrayBegin arm yielding the array that the end of the text has cut.
array_close_lenient(src, loop, p) ==
    IF loop.out = "panic" THEN PPanic(loop.ps)
    ELSE IF loop.out = "err" THEN PErr(loop.err, loop.ps)
    ELSE Let(next_shall_be(src, loop.ps, Token("ArrayEnd"), p), LAMBDA shall :
         IF shall.out = "panic" THEN PPanic(shall.ps)
         ELSE IF shall.out = "err" /\ shall.err.e # "UnexpectedEnd"
         THEN PErr(shall.err, shall.ps)
         ELSE member_value(src, shall.ps, JPartialToken_Array(loop.array), p))

\* The ArrayBegin arm after the loop: the closing bracket, the lookahead.
array_close(src, loop, p) ==
    IF loop.out = "panic" THEN PPanic(loop.ps)
    ELSE IF loop.out = "err" THEN PErr(loop.err, loop.ps)
    ELSE Let(next_shall_be(src, loop.ps, Token("ArrayEnd"), p), LAMBDA shall :
         IF shall.out = "panic" THEN PPanic(shall.ps)
         ELSE IF shall.out = "err" THEN PErr(shall.err, shall.ps)
         ELSE member_value(src, shall.ps, JPartialToken_Array(loop.array), p))

\* The ArrayBegin arm.
array_begin(src, ps, p) ==
    Let(crib_if_next_is(src, ps, Token("ArrayEnd")), LAMBDA crib :
        IF crib = "panic" THEN PPanic(ps)
        ELSE Let(IF crib = "yes"
                 THEN [out |-> "done", err |-> NoError, array |-> <<>>, ps |-> ps]
                 ELSE array_elements(src, ps, <<>>),
                 LAMBDA loop : array_close(src, loop, p)))

\* The StringContent arm expecting MemberValue alone after a member name.
string_content_value_only(src, ps, s, p) ==
    IF do_we_expect(ps, "MemberName")
    THEN Let(next_shall_be(src, ps, Token("NameSeparator"), p), LAMBDA shall :
         IF shall.out = "panic" THEN PPanic(shall.ps)
         ELSE IF shall.out = "err" THEN PErr(shall.err, shall.ps)
         ELSE POk(JPartialToken_MemberName(s), p,
                  [shall.ps EXCEPT !.expect = <<"MemberValue">>,
                                   !.count = @ + 1]))
    ELSE IF do_we_expect(ps, "MemberValue")
    THEN member_value(src, ps, JPartialToken_MemberValue(JPValue_String(s)), p)
    ELSE PPanic(ps)

\* The StringContent arm.
string_content(src, ps, s, p) ==
    IF do_we_expect(ps, "MemberName")
    THEN Let(next_shall_be(src, ps, Token("NameSeparator"), p), LAMBDA shall :
         IF shall.out = "panic" THEN PPanic(shall.ps)
         ELSE IF shall.out = "err" THEN PErr(shall.err, shall.ps)
         ELSE POk(JPartialToken_MemberName(s), p,
                  [shall.ps EXCEPT !.expect = <<"MemberValue", "ObjectBegin">>,
                                   !.count = @ + 1]))
    ELSE IF do_we_expect(ps, "MemberValue")
    THEN member_value(src, ps, JPartialToken_MemberValue(JPValue_String(s)), p)
    ELSE PPanic(ps)

\* The ObjectEnd arm closing an object whatever the depth is.
object_end_unchecked(src, ps, p) ==
    Let([ps EXCEPT !.object_cnt = @ - 1], LAMBDA ps1 :
        member_value(src, ps1, JPartialToken_ObjectEnd, p))

\* The ObjectEnd arm.
object_end(src, ps, p) ==
    IF ps.object_cnt > 0
    THEN Let([ps EXCEPT !.object_cnt = @ - 1], LAMBDA ps1 :
             member_value(src, ps1, JPartialToken_ObjectEnd, p))
    ELSE PErr(UnclosedObject(p), [ps EXCEPT !.count = @ + 1])

\* The match on the lexer token ltk at p, ps the parser that has pulled it.
match_token(src, ps, ltk, p) ==
    CASE ltk.k = "ObjectBegin" ->
            POk(JPartialToken_ObjectBegin, p,
                [ps EXCEPT !.expect = <<"MemberName", "ObjectEnd">>,
                           !.object_cnt = @ + 1,
                           !.count = @ + 1])
      [] ltk.k = "ObjectEnd" -> object_end(src, ps, p)
      [] ltk.k = "ArrayBegin" -> array_begin(src, ps, p)
      [] ltk.k = "TrueToken" ->
            member_value(src, ps, JPartialToken_MemberValue(JPValue_True), p)
      [] ltk.k = "FalseToken" ->
            member_value(src, ps, JPartialToken_MemberValue(JPValue_False), p)
      [] ltk.k = "NullToken" ->
            member_value(src, ps, JPartialToken_MemberValue(JPValue_Null), p)
      [] ltk.k = "StringContent" -> string_content(src, ps, ltk.s, p)
      [] ltk.k = "NumberInteger" ->
            member_value(src, ps, JPartialToken_MemberValue(JPValue_Integer(ltk.n)), p)
      [] ltk.k = "NumberFloat" ->
            member_value(src, ps,
                         JPartialToken_MemberValue(JPValue_Float(ltk.n, ltk.d)), p)
      [] ltk.k = "UnknownToken" ->
            PErr(JParseError_UnknownToken(p, ltk.s), [ps EXCEPT !.count = @ + 1])
      [] OTHER -> PPanic(ps)

\* The pull expecting a member name or the end of the object after a token
\* it has refused.
JPartialParser_next_recovering(src, ps) ==
    Let(Filter_next(src, ps.lexer), LAMBDA next :
        Let([ps EXCEPT !.lexer = next.lx], LAMBDA ps1 :
            IF next.out = "none" THEN PNone(ps1)
            ELSE IF next.out = "panic" THEN PPanic(ps1)
            ELSE IF ~was_expected(ps1, next.tk)
            THEN PErr(unexpected_token(next.p, next.tk, ps1.expect),
                      [ps1 EXCEPT !.expect = <<"MemberName", "ObjectEnd">>])
            ELSE match_token(src, ps1, next.tk, next.p)))

\* <JPartialParser as Iterator>::next.
JPartialParser_next(src, ps) ==
    Let(Filter_next(src, ps.lexer), LAMBDA next :
        Let([ps EXCEPT !.lexer = next.lx], LAMBDA ps1 :
            IF next.out = "none" THEN PNone(ps1)
            ELSE IF next.out = "panic" THEN PPanic(ps1)
            ELSE IF ~was_expected(ps1, next.tk)
            THEN PErr(unexpected_token(next.p, next.tk, ps1.expect), ps1)
            ELSE match_token(src, ps1, next.tk, next.p)))

(***************************************************************************)
(* The tree: JValue, JMember, JObject.                                     *)
(***************************************************************************)
JValue(t, s, n, d, a, o) == [t |-> t, s |-> s, n |-> n, d |-> d, a |-> a, o |-> o]

\* JValue::from(JPartialValue): the scalar keeps its tag and its payload.
JValue_from(v) == JValue(v.t, v.s, v.n, v.d, <<>>, <<>>)

JValue_Array(array) == JValue("Array", <<>>, 0, 1, array, <<>>)

\* JValue::Object(object); o holds the members of the object.
JValue_Object(object) == JValue("Object", <<>>, 0, 1, <<>>, object.members)

JMember(name, value) == [name |-> name, value |-> value]

JObject_default == [members |-> <<>>]

(***************************************************************************)
(* Source texts.  A text is a concatenation of words.                      *)
(***************************************************************************)
RECURSIVE concat(_)
concat(ws) == IF ws = <<>> THEN <<>> ELSE Head(ws) \o concat(Tail(ws))

\* Every sequence of at most n elements of S.
SeqsUpTo(S, n) == UNION {[1..k -> S] : k \in 0..n}

StructuralWords == {<<"{">>, <<"}">>, <<":">>, <<",">>, <<"\"">>}

SpaceWords == {<<" ">>, <<"\n", "\t">>}

NumberWords == {<<"1", "0">>, <<".", "7">>, <<"1", "5", ".">>}

LiteralWords == {<<"t", "r", "u", "e">>, <<"n", "u", "l", "l">>}

\* Words no token of JSON starts with or consists of.
UnknownWords == {<<"t", "r", "u">>, <<"x">>, <<"-">>, <<"'">>, <<"é">>}

LexWords ==
    StructuralWords \cup SpaceWords \cup NumberWords \cup LiteralWords \cup UnknownWords

MaxLexWords == 3

\* The document a text was rendered from: <<d>>, or <<>> for a text of words.
NoDoc == <<>>

(***************************************************************************)
(* Documents: well-formed JSON objects, and the text of each.              *)
(***************************************************************************)
ScalarValues ==
    {JValue_from(JPValue_String(<<"a">>)), JValue_from(JPValue_String(<<>>)),
     JValue_from(JPValue_Integer(10)), JValue_from(JPValue_True)}

ArrayValues ==
    {JValue_Array(<<>>),
     JValue_Array(<<JPValue_String(<<"a">>), JPValue_Integer(10), JPValue_True>>),
     JValue_Array(<<JPValue_Float(15, 10), JPValue_False, JPValue_Null>>),
     JValue_Array(<<JPValue_String(<<>>)>>)}

InnerObjects ==
    {JObject_default,
     [members |-> <<JMember(<<"b">>, JValue_from(JPValue_Integer(10)))>>],
     [members |-> <<JMember(<<"a">>, JValue_from(JPValue_String(<<"a">>))),
                    JMember(<<"b">>, JValue_Object(JObject_default))>>]}

Values == ScalarValues \cup ArrayValues \cup {JValue_Object(o) : o \in InnerObjects}

\* The values of the members of a document of several members.
FewValues ==
    {JValue_from(JPValue_String(<<"a">>)), JValue_from(JPValue_Integer(10)),
     JValue_Array(<<JPValue_String(<<"a">>), JPValue_Integer(10), JPValue_True>>),
     JValue_Object([members |-> <<JMember(<<"b">>, JValue_from(JPValue_Integer(10)))>>])}

\* The names of the members of a document: "a", "b", "a", ...
name_of(k) == IF k % 2 = 0 THEN <<"b">> ELSE <<"a">>

MaxMembers == 3

Documents ==
    {[members |-> [k \in 1..Len(vs) |-> JMember(name_of(k), vs[k])]] :
        vs \in [1..1 -> Values] \cup SeqsUpTo(FewValues, MaxMembers)}

quoted(s) == <<"\"">> \o s \o <<"\"">>

RECURSIVE digits_of(_)
\* The decimal digits of a natural number.
digits_of(n) ==
    LET c == CHOOSE c \in Digits : DigitValue(c) = n % 10
    IN  IF n < 10 THEN <<c>> ELSE Append(digits_of(n \div 10), c)

\* The words of a scalar; a float n / 10 is written with one fraction digit.
scalar_words(v) ==
    CASE v.t = "String"  -> <<quoted(v.s)>>
      [] v.t = "Integer" -> <<digits_of(v.n)>>
      [] v.t = "Float"   -> <<digits_of(v.n \div 10) \o <<".">> \o digits_of(v.n % 10)>>
      [] v.t = "True"    -> <<<<"t", "r", "u", "e">>>>
      [] v.t = "False"   -> <<<<"f", "a", "l", "s", "e">>>>
      [] v.t = "Null"    -> <<<<"n", "u", "l", "l">>>>

RECURSIVE array_words(_)
array_words(a) ==
    IF a = <<>> THEN <<>>
    ELSE IF Len(a) = 1 THEN scalar_words(a[1])
    ELSE scalar_words(a[1]) \o <<<<",", " ">>>> \o array_words(Tail(a))

RECURSIVE object_words(_)
RECURSIVE members_words(_)
value_words(v) ==
    CASE v.t = "Array"  -> <<<<"[">>>> \o array_words(v.a) \o <<<<"]">>>>
      [] v.t = "Object" -> object_words(v.o)
      [] OTHER          -> scalar_words(v)

members_words(ms) ==
    IF ms = <<>> THEN <<>>
    ELSE LET m == <<quoted(ms[1].name), <<":", " ">>>> \o value_words(ms[1].value)
         IN  IF Len(ms) = 1 THEN m ELSE m \o <<<<",", " ">>>> \o members_words(Tail(ms))

\* The words of the object with members ms: {"a": 10, "b": [true, null]}.
object_words(ms) == <<<<"{">>>> \o members_words(ms) \o <<<<"}">>>>

(***************************************************************************)
(* The texts a run draws from: every document, every beginning of a        *)
(* document followed by one more word or by nothing, every document        *)
(* followed by one more word, and every short sequence of words.           *)
(***************************************************************************)
Words ==
    {<<"{">>, <<"}">>, <<"[">>, <<"]">>, <<":">>, <<",">>, <<" ">>,
     <<"\"", "a", "\"">>, <<"1", "0">>, <<"t", "r", "u", "e">>,
     <<"F", "a", "l", "s", "e">>, <<"x">>, <<"-">>}

MaxWords == 2

DocumentTexts == {[doc |-> <<d>>, text |-> concat(object_words(d.members))] : d \in Documents}

\* The texts are cut inside the documents that have fewer than MaxMembers
\* members: behind a value-separator the validator is where it was behind
\* the one before.
CutDocuments == {d \in Documents : Len(d.members) < MaxMembers}

Beginnings ==
    UNION {{SubSeq(ws, 1, k) : k \in 1..(Len(ws) - 1)} :
              ws \in {object_words(d.members) : d \in CutDocuments}}

CutTexts ==
    {[doc |-> NoDoc, text |-> concat(ws) \o w] : ws \in Beginnings, w \in Words \cup {<<>>}}

TailTexts == {[doc |-> NoDoc, text |-> t.text \o w] : t \in DocumentTexts, w \in Words}

WordTexts == {[doc |-> NoDoc, text |-> concat(ws)] : ws \in SeqsUpTo(Words, MaxWords)}

\* A document of one member followed by a value-separator and its member
\* once more: {"a": 10}, "a": 10.
SequelTexts ==
    {[doc |-> NoDoc,
      text |-> concat(object_words(d.members) \o <<<<",", " ">>>> \o members_words(d.members))] :
        d \in {d \in Documents : Len(d.members) = 1}}

Texts == DocumentTexts \cup CutTexts \cup TailTexts \cup WordTexts \cup SequelTexts

\* What may follow the closing brace of a document.
SuffixWords ==
    {<<>>, <<",">>, <<"}">>, <<" ", "x", "y", "z">>, <<" ", "1", "0">>, <<"é">>}

\* Every document followed by one of the suffixes.
SuffixTexts == {[doc |-> t.doc, text |-> t.text \o w] : t \in DocumentTexts, w \in SuffixWords}

\* The texts the lexer is pulled on: short sequences of words, and documents.
LexTexts ==
    {concat(ws) : ws \in SeqsUpTo(LexWords, MaxLexWords)} \cup {t.text : t \in DocumentTexts}

(***************************************************************************)
(* Runs.  One text per run; the lexer, the grammar validator and the       *)
(* parser are each pulled by their own specification.                      *)
(***************************************************************************)
NoPull ==
    [some |-> FALSE, ltk |-> Token("NullToken"), p |-> 0, expect |-> <<>>,
     object_cnt |-> 0, out |-> "init", tk |-> JPartialToken_ObjectBegin, rp |-> 0,
     err |-> NoError, after |-> JLexer_new]

NoResult == [t |-> "none", object |-> JObject_default, err |-> NoError]

Ok(object) == [t |-> "Ok", object |-> object, err |-> NoError]

Err(err) == [t |-> "Err", object |-> JObject_default, err |-> err]

InitWith(src, d) ==
    /\ source = src
    /\ doc = d
    /\ lexer = JLexer_new
    /\ lexed = <<>>
    /\ pp = JPartialParser_new
    /\ last = NoPull
    /\ items = <<>>
    /\ pc = "parse"
    /\ stack = <<>>
    /\ result = NoResult

InitLexer == \E src \in LexTexts : InitWith(src, NoDoc)

Init == \E t \in Texts : InitWith(t.text, t.doc)

InitSuffix == \E t \in SuffixTexts : InitWith(t.text, t.doc)

\* One call of lexer.next() on a JLexer of the text; an abort ends the run.
LexerNext ==
    /\ Len(lexed) <= Len(source)
    /\ IF lexed = <<>> THEN TRUE ELSE lexed[Len(lexed)].out # "panic"
    /\ \E r \in {JLexer_next(source, lexer)} :
           /\ lexer' = r.lx
           /\ lexed' = Append(lexed, [out |-> r.out, tk |-> r.tk, p |-> r.p, i |-> r.lx.iter.i])
    /\ UNCHANGED <<source, doc, pp, last, items, pc, stack, result>>

\* The call self.0.next() leaving the lexer of the validator where it was.
pulled_in_place(r) ==
    \E first \in {Filter_next(source, pp.lexer)} :
        /\ pp' = [r.ps EXCEPT !.lexer = pp.lexer]
        /\ last' = [some |-> first.out = "some", ltk |-> first.tk, p |-> first.p,
                    expect |-> pp.expect, object_cnt |-> pp.object_cnt,
                    out |-> r.out, tk |-> r.tk, rp |-> r.p, err |-> r.err,
                    after |-> first.lx]
        /\ items' = IF r.out \in {"ok", "err"}
                    THEN Append(items, [out |-> r.out, tk |-> r.tk, p |-> r.p, err |-> r.err])
                    ELSE items

\* The call self.0.next() that returns r: the validator moves on, and the call
\* is recorded with the lexer token it pulled first, the lexer after that
\* token and the state the call met.
pulled(r) ==
    \E first \in {Filter_next(source, pp.lexer)} :
        /\ pp' = r.ps
        /\ last' = [some |-> first.out = "some", ltk |-> first.tk, p |-> first.p,
                    expect |-> pp.expect, object_cnt |-> pp.object_cnt,
                    out |-> r.out, tk |-> r.tk, rp |-> r.p, err |-> r.err,
                    after |-> first.lx]
        /\ items' = IF r.out \in {"ok", "err"}
                    THEN Append(items, [out |-> r.out, tk |-> r.tk, p |-> r.p, err |-> r.err])
                    ELSE items

\* One call of next() on a JPartialParser of the text, as the parser tests
\* pull it; an abort ends the run.
PartialNext ==
    /\ last.out # "panic"
    /\ \E r \in {JPartialParser_next(source, pp)} : pulled(r)
    /\ UNCHANGED <<source, doc, lexer, lexed, pc, stack, result>>

\* JParser::parse: the first item is pulled and dropped, then parse_object.
JParser_parse ==
    /\ pc = "parse"
    /\ \E r \in {JPartialParser_next(source, pp)} :
           /\ pulled(r)
           /\ IF r.out = "none"
              THEN /\ pc' = "returned"
                   /\ result' = Err(NoBeginningObject(1))
                   /\ stack' = stack
              ELSE IF r.out = "panic"
              THEN /\ pc' = "panicked"
                   /\ UNCHANGED <<result, stack>>
              ELSE /\ pc' = "name"
                   /\ stack' = <<[object |-> JObject_default, name |-> <<>>]>>
                   /\ result' = result
    /\ UNCHANGED <<source, doc, lexer, lexed>>

\* parse_object returning to an activation that leaves the nested object out
\* of its member list.
return_object_lost ==
    IF Len(stack) = 1
    THEN /\ pc' = "returned"
         /\ result' = Ok(stack[1].object)
         /\ stack' = <<>>
    ELSE /\ pc' = "name"
         /\ result' = result
         /\ stack' = SubSeq(stack, 1, Len(stack) - 1)

\* parse_object returns Ok(object) to its caller: to parse, or to the
\* activation that waits for the value of its member.
return_object ==
    LET object == stack[Len(stack)].object
        caller == stack[Len(stack) - 1]
        member == JMember(caller.name, JValue_Object(object))
    IN  IF Len(stack) = 1
        THEN /\ pc' = "returned"
             /\ result' = Ok(object)
             /\ stack' = <<>>
        ELSE /\ pc' = "name"
             /\ result' = result
             /\ stack' = [SubSeq(stack, 1, Len(stack) - 1) EXCEPT
                             ![Len(stack) - 1].object.members = Append(@, member)]

\* The push replacing the members that have the name already.
push_member_merged(value) ==
    LET top  == stack[Len(stack)]
        kept == SelectSeq(top.object.members, LAMBDA m : m.name # top.name)
    IN  stack' = [stack EXCEPT ![Len(stack)].object.members =
                                   Append(kept, JMember(top.name, value))]

\* object.members.push(JMember { name, value }) in the innermost activation.
push_member(value) ==
    stack' = [stack EXCEPT ![Len(stack)].object.members =
                               Append(@, JMember(stack[Len(stack)].name, value))]

\* parse_object, the first half of the loop body: a member name or the end.
parse_object_name ==
    /\ pc = "name"
    /\ \E r \in {JPartialParser_next(source, pp)} :
           /\ pulled(r)
           /\ IF r.out \in {"none", "panic"}
              THEN /\ pc' = "panicked"
                   /\ UNCHANGED <<result, stack>>
              ELSE IF r.out = "err"
              THEN /\ pc' = "returned"
                   /\ result' = Err(r.err)
                   /\ stack' = stack
              ELSE IF r.tk.t = "MemberName"
              THEN /\ pc' = "value"
                   /\ stack' = [stack EXCEPT ![Len(stack)].name = r.tk.s]
                   /\ result' = result
              ELSE IF r.tk.t = "ObjectEnd"
              THEN return_object
              ELSE /\ pc' = "panicked"
                   /\ UNCHANGED <<result, stack>>
    /\ UNCHANGED <<source, doc, lexer, lexed>>

\* parse_object, the second half of the loop body: the value of the member.
parse_object_value ==
    /\ pc = "value"
    /\ \E r \in {JPartialParser_next(source, pp)} :
           /\ pulled(r)
           /\ IF r.out \in {"none", "panic"}
              THEN /\ pc' = "panicked"
                   /\ UNCHANGED <<result, stack>>
              ELSE IF r.out = "err"
              THEN /\ pc' = "returned"
                   /\ result' = Err(r.err)
                   /\ stack' = stack
              ELSE IF r.tk.t = "MemberValue"
              THEN /\ pc' = "name"
                   /\ push_member(JValue_from(r.tk.v))
                   /\ result' = result
              ELSE IF r.tk.t = "Array"
              THEN /\ pc' = "name"
                   /\ push_member(JValue_Array(r.tk.a))
                   /\ result' = result
              ELSE IF r.tk.t = "ObjectBegin"
              THEN /\ pc' = "name"
                   /\ stack' = Append(stack, [object |-> JObject_default, name |-> <<>>])
                   /\ result' = result
              ELSE /\ pc' = "panicked"
                   /\ UNCHANGED <<result, stack>>
    /\ UNCHANGED <<source, doc, lexer, lexed>>

Next == JParser_parse \/ parse_object_name \/ parse_object_value

\* JParser::parse on a text.
Spec == Init /\ [][Next]_vars

\* JParser::parse on a document with or without a suffix, or on a short
\* sequence of words, the call running on until it returns or aborts.
InitTerminates == \E t \in SuffixTexts \cup WordTexts : InitWith(t.text, t.doc)

SpecTerminates == InitTerminates /\ [][Next]_vars /\ WF_vars(Next)

\* JParser::parse on a document with something behind its closing brace.
SpecSuffix == InitSuffix /\ [][Next]_vars

\* The grammar validator pulled item by item.
SpecPartial == Init /\ [][PartialNext]_vars

\* The lexer pulled item by item.
SpecLexer == InitLexer /\ [][LexerNext]_vars

(***************************************************************************)
(* Properties.  A position is a 1-based byte offset into the text.         *)
(***************************************************************************)
\* The characters of s stand in src from byte position p on.
text_at(src, p, s) ==
    \E k \in {k \in 1..Len(src) : k <= p /\ p <= 2 * k - 1} :
        /\ bytes(src, 1, k - 1) = p - 1
        /\ k + Len(s) - 1 <= Len(src)
        /\ SubSeq(src, k, k + Len(s) - 1) = s

\* The character of src before byte position p, "" where there is none.
char_before(src, p) ==
    LET S == {k \in 1..Len(src) : k < p /\ bytes(src, 1, k) = p - 1}
    IN  IF S = {} THEN "" ELSE src[Max(S)]

\* The last character of src before byte position p that is neither
\* whitespace nor a quotation mark, "" where there is none.
sign_before(src, p) ==
    LET S == {k \in 1..Len(src) : /\ bytes(src, 1, k) < p
                                  /\ ~is_whitespace(src[k])
                                  /\ src[k] # "\""}
    IN  IF S = {} THEN "" ELSE src[Max(S)]

\* The last character of src before byte position p that is not whitespace.
mark_before(src, p) ==
    LET S == {k \in 1..Len(src) : bytes(src, 1, k) < p /\ ~is_whitespace(src[k])}
    IN  IF S = {} THEN "" ELSE src[Max(S)]

blank(src) == \A k \in 1..Len(src) : is_whitespace(src[k])

\* The call of parse has ended, by a return or by an abort.
ended == pc \in {"returned", "panicked"}

\* The first item of the text that the filter of the validator keeps.
first_token == Filter_next(source, JLexer_new)

\* The last pull of the validator met an unknown lexer token first.
pulled_unknown == last.some /\ last.ltk.k = "UnknownToken"

name_expected == \E k \in 1..Len(last.expect) : last.expect[k] = "MemberName"

value_expected == \E k \in 1..Len(last.expect) : last.expect[k] = "MemberValue"

\* C1: for every well-formed JSON object text, parse returns Ok with an
\* object whose members are in source order (the names of the document, one
\* after the other) and whose member count is the number of top-level keys.
C1_WellFormedObjectParses ==
    (doc # NoDoc /\ ended) =>
        /\ pc = "returned"
        /\ result.t = "Ok"
        /\ Len(result.object.members) = Len(doc[1].members)
        /\ \A k \in 1..Len(result.object.members) :
               IF k <= Len(doc[1].members)
               THEN result.object.members[k].name = doc[1].members[k].name
               ELSE FALSE

\* C2: for every input text parse returns a value, Ok(object) or Err(error),
\* and never aborts with a panic, also when the text ends before the
\* top-level object is closed.
C2_ParseNeverPanics ==
    /\ pc # "panicked"
    /\ pc = "returned" => result.t \in {"Ok", "Err"}

\* C3: if the first grammar-relevant token of the text is not an
\* object-begin, parse returns the UnexpectedToken error of the validator for
\* that token, with expected set {ObjectBegin}, and builds no object.
C3_FirstTokenNotObjectBegin ==
    (first_token.out = "some" /\ first_token.tk.k # "ObjectBegin" /\ pc # "parse") =>
        /\ pc = "returned"
        /\ result = Err(UnexpectedToken(first_token.p, Feedb_JLToken(first_token.tk),
                                        Feedb_JPExpect(<<"ObjectBegin">>)))

C5_UnquotedKeyExpectsMemberName ==
    (pulled_unknown /\ (name_expected \/ value_expected)) =>
        /\ pc = "returned"
        /\ result = Err(UnexpectedToken(last.p, Feedb_JLToken(last.ltk),
                                        Feedb_JPExpect(last.expect)))
        /\ name_expected => last.expect = <<"MemberName">>
        /\ value_expected => last.expect = <<"MemberValue", "ObjectBegin">>

\* C5, amended: an unknown lexer token pulled where a member name or a
\* member value is expected makes parse return UnexpectedToken(position of
\* the token, found = the unknown token with its raw text, expected = the
\* expectation set of the moment); the set is {MemberName} for an unquoted
\* key after a value-separator, {MemberName, ObjectEnd} for an unquoted key
\* directly after the opening brace, and {MemberValue, ObjectBegin} for a
\* misspelled literal in value position.
C5_UnknownTokenInMember ==
    (pulled_unknown /\ (name_expected \/ value_expected)) =>
        /\ pc = "returned"
        /\ result = Err(UnexpectedToken(last.p, Feedb_JLToken(UnknownToken(last.ltk.s)),
                                        Feedb_JPExpect(last.expect)))
        /\ text_at(source, last.p, last.ltk.s)
        /\ sign_before(source, last.p) \in {",", "{", ":"}
        /\ last.expect = CASE sign_before(source, last.p) = "," -> <<"MemberName">>
                           [] sign_before(source, last.p) = "{" -> <<"MemberName", "ObjectEnd">>
                           [] OTHER -> <<"MemberValue", "ObjectBegin">>

C5_Witness ==
    /\ pulled_unknown
    /\ last.expect = <<"MemberName">>
    /\ last.ltk.s = <<"x">>
    /\ pc = "returned"
    /\ result.t = "Err"

\* The last pull met the closing brace of an open object first, and a
\* value-separator stands directly before the brace.
trailing_comma ==
    /\ last.some
    /\ last.ltk = Token("ObjectEnd")
    /\ last.object_cnt >= 1
    /\ mark_before(source, last.p) = ","

\* C6: a value-separator directly before the closing brace of an object
\* makes parse return UnexpectedToken with the position of the brace, found
\* = ObjectEnd, expected set = {MemberName}.
C6_TrailingComma ==
    trailing_comma =>
        /\ text_at(source, last.p, <<"}">>)
        /\ pc = "returned"
        /\ result = Err(UnexpectedToken(last.p, Feedb_JLToken(Token("ObjectEnd")),
                                        Feedb_JPExpect(<<"MemberName">>)))

C6_Witness ==
    /\ trailing_comma
    /\ pc = "returned"
    /\ result.err.e = "UnexpectedToken"
    /\ Len(stack) = 1
    /\ Len(stack[1].object.members) = 1

\* C7: parse on a text from which the validator yields no item (the empty
\* text, whitespace only) returns NoBeginningObject(1).
C7_NoBeginningObject ==
    (pc # "parse" /\ (blank(source) \/ first_token.out = "none")) =>
        /\ pc = "returned"
        /\ result = Err(NoBeginningObject(1))
        /\ items = <<>>

C7_Witness ==
    /\ source # <<>>
    /\ blank(source)
    /\ pc = "returned"
    /\ result = Err(NoBeginningObject(1))

\* C8: the lexer yields no-more-items only when the whole input has been
\* scanned; whatever it cannot classify is emitted as an UnknownToken.
C8_NoneOnlyAtEnd ==
    \A k \in 1..Len(lexed) : lexed[k].out = "none" => lexed[k].i = Len(source)

\* C9: the first token of the text .7 is Float(0.7), of 15. it is
\* Float(15.0) and of 10 it is Integer(10).
C9_NumbersInIsolation ==
    lexed # <<>> =>
        /\ source = <<".", "7">> =>
               (lexed[1].out = "some" /\ lexed[1].tk = NumberFloat(7, 10))
        /\ source = <<"1", "5", ".">> =>
               (lexed[1].out = "some" /\ lexed[1].tk = NumberFloat(15, 1))
        /\ source = <<"1", "0">> =>
               (lexed[1].out = "some" /\ lexed[1].tk = NumberInteger(10))

\* The position of a partial token is that of the first character of the
\* lexer token that started it.
position_fits(tk, p) ==
    CASE tk.t = "ObjectBegin" -> text_at(source, p, <<"{">>)
      [] tk.t = "ObjectEnd"   -> text_at(source, p, <<"}">>)
      [] tk.t = "Array"       -> text_at(source, p, <<"[">>)
      [] tk.t = "MemberName"  -> text_at(source, p, tk.s) /\ char_before(source, p) = "\""
      [] tk.t = "MemberValue" ->
            CASE tk.v.t = "String" ->
                     text_at(source, p, tk.v.s) /\ char_before(source, p) = "\""
              [] tk.v.t = "True"   -> text_at(source, p, <<"t", "r", "u", "e">>)
              [] tk.v.t = "False"  -> text_at(source, p, <<"f", "a", "l", "s", "e">>)
              [] tk.v.t = "Null"   -> text_at(source, p, <<"n", "u", "l", "l">>)
              [] OTHER ->
                     /\ \E c \in Digits \cup {"."} : text_at(source, p, <<c>>)
                     /\ ~is_number(char_before(source, p))

\* C10: every partial token the validator yields carries the 1-based
\* position of the first character of the lexer token that started it (the
\* brace, the first character after the opening quote, the first character of
\* a literal or number, the opening bracket), and the positions of successive
\* partial tokens strictly increase.
C10_Positions ==
    last.out = "ok" =>
        /\ items # <<>>
        /\ items[Len(items)].tk = last.tk
        /\ items[Len(items)].p = last.rp
        /\ position_fits(last.tk, last.rp)
        /\ \A j \in 1..(Len(items) - 1) : items[j].out = "ok" => items[j].p < last.rp

C10_Witness ==
    /\ Len(items) >= 5
    /\ \A k \in 1..Len(items) : items[k].out = "ok"
    /\ \E k \in 1..Len(items) : items[k].tk.t = "Array" /\ Len(items[k].tk.a) = 3
    /\ \E k \in 1..Len(items) : items[k].tk.t = "MemberValue" /\ items[k].tk.v.t = "Integer"
    /\ items[Len(items)].tk.t = "ObjectEnd"

\* The lists of the arrays among the member values of the document, in order.
arrays_of_doc ==
    LET ms == SelectSeq(doc[1].members, LAMBDA m : m.value.t = "Array")
    IN  [k \in 1..Len(ms) |-> ms[k].value.a]

\* The lists of the Array tokens the validator has yielded, in order.
arrays_yielded ==
    LET is == SelectSeq(items, LAMBDA i : i.out = "ok" /\ i.tk.t = "Array")
    IN  [k \in 1..Len(is) |-> is[k].tk.a]

\* C11: for a member whose value is an array of scalars the validator
\* yields exactly one Array token, whose list holds one value per element in
\* source order, each of the kind of its element; [] yields an empty list.
C11_ArrayOfScalars ==
    doc # NoDoc =>
        /\ Len(arrays_yielded) <= Len(arrays_of_doc)
        /\ \A k \in 1..Len(arrays_yielded) :
               IF k <= Len(arrays_of_doc) THEN arrays_yielded[k] = arrays_of_doc[k] ELSE FALSE
        /\ last.out = "none" => Len(arrays_yielded) = Len(arrays_of_doc)

\* The text holds an empty string literal.
has_empty_string ==
    \E k \in 1..(Len(source) - 1) : source[k] = "\"" /\ source[k + 1] = "\""

\* The ObjectBegin tokens less the ObjectEnd tokens among the first n items.
open_after(n) ==
    Cardinality({k \in 1..n : items[k].out = "ok" /\ items[k].tk.t = "ObjectBegin"})
        - Cardinality({k \in 1..n : items[k].out = "ok" /\ items[k].tk.t = "ObjectEnd"})

\* C12: the validator yields ObjectBegin and ObjectEnd in properly nested
\* pairs, and parse builds the tree of the document, nested as the braces
\* are: a nested object is the value of its member, and the members after it
\* belong to the enclosing object.
C12_NestedObjects ==
    /\ \A n \in 1..Len(items) : open_after(n) >= 0
    /\ (doc # NoDoc /\ ~has_empty_string /\ ended) =>
           /\ pc = "returned"
           /\ result = Ok(doc[1])
           /\ open_after(Len(items)) = 0

C12_Witness ==
    /\ doc # NoDoc
    /\ pc = "returned"
    /\ result.t = "Ok"
    /\ Len(result.object.members) = 1
    /\ result.object.members[1].value.t = "Object"
    /\ Len(result.object.members[1].value.o) = 2
    /\ result.object.members[1].value.o[2].value.t = "Object"
    /\ result.object.members[1].value.o[2].value.o = <<>>

\* The first character of src after its first i characters that is neither
\* whitespace nor a quotation mark, "" where there is none.
sign_after(src, i) ==
    LET S == {k \in (i + 1)..Len(src) : ~is_whitespace(src[k]) /\ src[k] # "\""}
    IN  IF S = {} THEN "" ELSE src[Min(S)]

\* The last pull has yielded a value: a scalar, an array or the end of an
\* object.
value_yielded == last.out = "ok" /\ last.tk.t \in {"MemberValue", "Array", "ObjectEnd"}

\* C13: in an object with any number of members, after every member value
\* that a value-separator follows the expectation set is exactly
\* {MemberName}, after the last member value it is exactly {ObjectEnd}, and
\* no error is yielded between members: the pull after a value-separator
\* yields the member name.
C13_MemberAfterMember ==
    doc # NoDoc =>
        /\ value_yielded =>
               IF source[pp.lexer.iter.i] = ","
               THEN pp.expect = <<"MemberName">>
               ELSE /\ pp.expect = <<"ObjectEnd">>
                    /\ sign_after(source, pp.lexer.iter.i) # ","
        /\ last.expect = <<"MemberName">> =>
               (last.out = "ok" /\ last.tk.t = "MemberName")
        /\ ~has_empty_string => \A k \in 1..Len(items) : items[k].out = "ok"

C13_Witness ==
    /\ doc # NoDoc
    /\ Len(doc[1].members) = 3
    /\ value_yielded
    /\ pp.expect = <<"MemberName">>
    /\ Cardinality({k \in 1..Len(items) : items[k].tk.t = "MemberName"}) = 2
    /\ \A k \in 1..Len(items) : items[k].out = "ok"

\* The names of the members ms, in order.
names_of(ms) == [k \in 1..Len(ms) |-> ms[k].name]

\* Two members of the document have the same name.
has_duplicate_name ==
    \E j, k \in 1..Len(doc[1].members) :
        j < k /\ doc[1].members[j].name = doc[1].members[k].name

\* C14: when a member name occurs more than once in an object, parse keeps
\* every occurrence: all of them are in the member list in the order of the
\* text, with their own values; none is dropped, merged or rejected.
C14_DuplicateNamesKept ==
    (doc # NoDoc /\ ended) =>
        IF has_duplicate_name
        THEN /\ pc = "returned"
             /\ result.t = "Ok"
             /\ names_of(result.object.members) = names_of(doc[1].members)
             /\ result.object.members = doc[1].members
        ELSE TRUE

C14_Witness ==
    /\ doc # NoDoc
    /\ pc = "returned"
    /\ result.t = "Ok"
    /\ Len(result.object.members) = 3
    /\ result.object.members[1].name = result.object.members[3].name
    /\ result.object.members[1].value # result.object.members[3].value

\* The lexer token ltk begins at byte position p of the text.
found_fits(ltk, p) ==
    CASE ltk.k = "ObjectBegin"    -> text_at(source, p, <<"{">>)
      [] ltk.k = "ObjectEnd"      -> text_at(source, p, <<"}">>)
      [] ltk.k = "ArrayBegin"     -> text_at(source, p, <<"[">>)
      [] ltk.k = "ArrayEnd"       -> text_at(source, p, <<"]">>)
      [] ltk.k = "NameSeparator"  -> text_at(source, p, <<":">>)
      [] ltk.k = "ValueSeparator" -> text_at(source, p, <<",">>)
      [] ltk.k = "TrueToken"      -> text_at(source, p, <<"t", "r", "u", "e">>)
      [] ltk.k = "FalseToken"     -> text_at(source, p, <<"f", "a", "l", "s", "e">>)
      [] ltk.k = "NullToken"      -> text_at(source, p, <<"n", "u", "l", "l">>)
      [] ltk.k = "StringContent"  ->
             text_at(source, p, ltk.s) /\ char_before(source, p) = "\""
      [] ltk.k = "UnknownToken"   -> text_at(source, p, ltk.s)
      [] ltk.k \in {"NumberInteger", "NumberFloat"} ->
             \E c \in Digits \cup {"."} : text_at(source, p, <<c>>)
      [] OTHER -> FALSE

\* C15: every UnexpectedToken error carries the position of the token that
\* was found, also when a name-separator is missing after a member name or a
\* closing bracket is missing after the elements of an array.
C15_UnexpectedTokenPosition ==
    (last.out = "err" /\ last.err.e = "UnexpectedToken") =>
        /\ last.err.found.t = "JLToken"
        /\ found_fits(last.err.found.tk, last.err.p)

\* C16: pulling from the lexer never aborts, whatever the text, multi-byte
\* characters inside string content or unknown words included: every slice
\* the lexer takes lies on character boundaries.
C16_LexerNeverPanics == \A k \in 1..Len(lexed) : lexed[k].out # "panic"

\* The token the last pull took from the lexer met none of the expectations
\* the validator had.
refused == last.some /\ ~was_expected([expect |-> last.expect], last.ltk)

\* C17: a pulled token that meets none of the current expectations yields
\* UnexpectedToken with the position of the token, the token and the full
\* expectation set; the expectation set and the depth stay as they were, and
\* nothing but that token is consumed.
C17_RefusedToken ==
    refused =>
        /\ last.out = "err"
        /\ last.err = UnexpectedToken(last.p, Feedb_JLToken(last.ltk),
                                      Feedb_JPExpect(last.expect))
        /\ found_fits(last.ltk, last.p)
        /\ pp.expect = last.expect
        /\ pp.object_cnt = last.object_cnt
        /\ pp.lexer = last.after

C17_Witness ==
    /\ refused
    /\ last.out = "err"
    /\ last.expect = <<"MemberValue", "ObjectBegin">>
    /\ last.object_cnt > 0
    /\ last.ltk.k \in {"ObjectEnd", "UnknownToken"}
    /\ pp.lexer.iter.i < Len(source)

\* The last pull took an object-end from the lexer at depth 0 while the
\* validator expected ObjectEnd.
end_at_depth_zero ==
    /\ last.some
    /\ last.ltk = Token("ObjectEnd")
    /\ last.object_cnt = 0
    /\ \E k \in 1..Len(last.expect) : last.expect[k] = "ObjectEnd"

\* C18: the depth of the validator is the number of ObjectBegin tokens it has
\* yielded minus the number of ObjectEnd tokens it has yielded, and is never
\* negative; an object-end met at depth 0 while ObjectEnd is expected yields
\* UnclosedObject with the position of the brace instead of ObjectEnd, and
\* changes neither the depth nor the expectation set.
C18_Depth ==
    /\ pp.object_cnt = open_after(Len(items))
    /\ pp.object_cnt >= 0
    /\ end_at_depth_zero =>
           /\ last.out = "err"
           /\ last.err = UnclosedObject(last.p)
           /\ text_at(source, last.p, <<"}">>)
           /\ pp.object_cnt = 0
           /\ pp.expect = last.expect

C18_Witness ==
    /\ end_at_depth_zero
    /\ last.err.e = "UnclosedObject"
    /\ \E k \in 1..Len(items) : items[k].out = "ok" /\ items[k].tk.t = "ObjectEnd"

\* The lexer lx after it has been pulled up to the first token tk, the end of
\* the text or an abort.
RECURSIVE pulled_up_to(_, _)
pulled_up_to(lx, tk) ==
    Let(Filter_next(source, lx), LAMBDA next :
        IF next.out # "some" THEN next.lx
        ELSE IF next.tk = tk THEN next.lx
        ELSE pulled_up_to(next.lx, tk))

\* The lexer behind the value the last pull has yielded: behind its one
\* token, behind the closing bracket of an array.
behind_value ==
    IF last.tk.t = "Array" THEN pulled_up_to(last.after, Token("ArrayEnd")) ELSE last.after

\* C19: after any value it produces (a scalar, an array, an object-end) the
\* validator looks at the next token the filter keeps without consuming it:
\* a value-separator is consumed, it alone, and MemberName is expected; on
\* anything else nothing is consumed and ObjectEnd is expected.
C19_AfterValue ==
    value_yielded =>
        Let(Filter_next(source, behind_value), LAMBDA next :
            IF next.out = "some" /\ next.tk = Token("ValueSeparator")
            THEN /\ pp.lexer = next.lx
                 /\ source[pp.lexer.iter.i] = ","
                 /\ pp.expect = <<"MemberName">>
            ELSE /\ pp.lexer = behind_value
                 /\ pp.expect = <<"ObjectEnd">>)

C19_Witness ==
    /\ value_yielded
    /\ last.tk.t = "ObjectEnd"
    /\ pp.expect = <<"MemberName">>
    /\ pp.lexer # last.after
    /\ \E k \in 1..Len(items) :
           /\ items[k].tk.t = "Array"
           /\ items[k].out = "ok"

\* The last pull took string content from the lexer while the validator
\* expected a member name.
name_pulled == last.some /\ last.ltk.k = "StringContent" /\ name_expected

\* C20: string content pulled while MemberName is expected becomes
\* MemberName(text) only if the next token the filter keeps is a
\* name-separator, which is consumed, and MemberValue and ObjectBegin are
\* expected then; a different token yields UnexpectedToken, the end of the
\* text UnexpectedEnd, and in both cases the expectation set and the depth
\* stay as they were.
C20_MemberName ==
    name_pulled =>
        Let(Filter_next(source, last.after), LAMBDA next :
            /\ pp.object_cnt = last.object_cnt
            /\ IF next.out = "some" /\ next.tk = Token("NameSeparator")
               THEN /\ last.out = "ok"
                    /\ last.tk = JPartialToken_MemberName(last.ltk.s)
                    /\ last.rp = last.p
                    /\ pp.lexer = next.lx
                    /\ pp.expect = <<"MemberValue", "ObjectBegin">>
               ELSE IF next.out = "some"
               THEN /\ last.out = "err"
                    /\ last.err.e = "UnexpectedToken"
                    /\ last.err.found = Feedb_JLToken(next.tk)
                    /\ last.err.expected = Feedb_JLToken(Token("NameSeparator"))
                    /\ pp.expect = last.expect
               ELSE /\ last.out = "err"
                    /\ last.err = UnexpectedEnd(last.p)
                    /\ pp.expect = last.expect)

C20_Witness ==
    /\ name_pulled
    /\ last.out = "err"
    /\ last.err.e = "UnexpectedToken"
    /\ last.err.found.tk.k \in {"NumberInteger", "ObjectEnd", "ValueSeparator"}
    /\ pp.object_cnt > 0

\* The kinds of lexer token for which the match of next has no arm.
ArmlessKinds == {"Whitespace", "StringToken", "ArrayEnd", "NameSeparator", "ValueSeparator"}

\* C21: the dispatch of the validator never reaches one of its two panic!
\* branches: a whitespace, quote-mark, array-end, name-separator or
\* value-separator token never passes the expectation check, and string
\* content that passes it finds MemberName or MemberValue expected.
C21_NoInternalFailure ==
    /\ last.out # "panic"
    /\ (last.some /\ last.ltk.k \in ArmlessKinds) =>
           /\ refused
           /\ last.out = "err"
           /\ last.err.e = "UnexpectedToken"
    /\ (last.some /\ last.ltk.k = "StringContent" /\ ~refused) =>
           /\ IF name_expected THEN ~value_expected ELSE value_expected
           /\ last.out = "ok" => last.tk.t \in {"MemberName", "MemberValue"}

C21_Witness ==
    /\ last.some
    /\ last.ltk.k \in {"ArrayEnd", "NameSeparator", "ValueSeparator"}
    /\ last.out = "err"
    /\ last.object_cnt > 0
    /\ \E k \in 1..Len(items) : items[k].out = "ok" /\ items[k].tk.t = "MemberValue"

\* The last pull took an opening bracket that the validator expected.
array_pulled == last.some /\ last.ltk.k = "ArrayBegin" /\ ~refused

NoElement == [some |-> FALSE, tk |-> Token("NullToken"), p |-> 0]

\* The first token in element position behind the lexer lx that is no scalar
\* value, if there is one: elements are separated by value-separators, and a
\* closing bracket right behind the opening one (first) ends an empty array.
RECURSIVE first_non_scalar(_, _)
first_non_scalar(lx, first) ==
    Let(Filter_next(source, lx), LAMBDA next :
        IF next.out # "some" THEN NoElement
        ELSE IF first /\ next.tk = Token("ArrayEnd") THEN NoElement
        ELSE IF ~is_scalar(next.tk) THEN [some |-> TRUE, tk |-> next.tk, p |-> next.p]
        ELSE Let(Filter_next(source, next.lx), LAMBDA sep :
                 IF sep.out = "some" /\ sep.tk = Token("ValueSeparator")
                 THEN first_non_scalar(sep.lx, FALSE)
                 ELSE NoElement))

\* C22: a token in array-element position that is no scalar value (a nested
\* array, an object-begin, a leading, doubled or trailing value-separator)
\* makes the validator yield UnexpectedToken with the position of that token
\* and the token as found; no Array token is yielded for that array.
C22_NonScalarElement ==
    array_pulled =>
        Let(first_non_scalar(last.after, TRUE), LAMBDA bad :
            bad.some =>
                /\ last.out = "err"
                /\ last.err.e = "UnexpectedToken"
                /\ last.err.p = bad.p
                /\ last.err.found = Feedb_JLToken(bad.tk)
                /\ found_fits(bad.tk, bad.p)
                /\ items[Len(items)].out = "err")

C22_Witness ==
    /\ array_pulled
    /\ last.out = "err"
    /\ first_non_scalar(last.after, TRUE).some
    /\ first_non_scalar(last.after, TRUE).tk = Token("ValueSeparator")
    /\ mark_before(source, last.err.p) = ","

\* The filter has no item behind the lexer lx because the text has ended.
text_ends(lx) ==
    Let(Filter_next(source, lx), LAMBDA next :
        next.out = "none" /\ next.lx.iter.i = Len(source))

\* The text ends inside the array whose elements begin behind the lexer lx:
\* right there, behind an element, or behind a value-separator that follows
\* an element.
RECURSIVE ends_in_array(_)
ends_in_array(lx) ==
    IF text_ends(lx) THEN TRUE
    ELSE Let(Filter_next(source, lx), LAMBDA next :
         IF next.out = "some" /\ is_scalar(next.tk)
         THEN IF text_ends(next.lx) THEN TRUE
              ELSE Let(Filter_next(source, next.lx), LAMBDA sep :
                       IF sep.out = "some" /\ sep.tk = Token("ValueSeparator")
                       THEN ends_in_array(sep.lx)
                       ELSE FALSE)
         ELSE FALSE)

passed_before == IF Len(lexed) > 1 THEN lexed[Len(lexed) - 1].i ELSE 0

\* The last pull of the lexer yielded a Whitespace token.
whitespace_pulled ==
    /\ lexed # <<>>
    /\ lexed[Len(lexed)].out = "some"
    /\ lexed[Len(lexed)].tk = Token("Whitespace")

\* C24: a run of whitespace characters (space, tab, CR, LF) of any length
\* yields one Whitespace token with the position of the first character of
\* the run; no two Whitespace tokens are adjacent in the output of the lexer.
C24_WhitespaceRun ==
    whitespace_pulled =>
        LET from == passed_before + 1
            to   == lexed[Len(lexed)].i
        IN  /\ from <= to
            /\ \A k \in from..to : is_whitespace(source[k])
            /\ to < Len(source) => ~is_whitespace(source[to + 1])
            /\ from > 1 => ~is_whitespace(source[from - 1])
            /\ lexed[Len(lexed)].p = bytes(source, 1, from - 1) + 1
            /\ Len(lexed) > 1 =>
                   ~(/\ lexed[Len(lexed) - 1].out = "some"
                     /\ lexed[Len(lexed) - 1].tk = Token("Whitespace"))

C24_Witness ==
    /\ whitespace_pulled
    /\ passed_before >= 1
    /\ lexed[Len(lexed)].i - passed_before >= 2
    /\ lexed[Len(lexed)].i < Len(source)

\* The last pull of the lexer passed a quotation mark of the text.
quote_passed ==
    /\ lexed # <<>>
    /\ \E k \in (passed_before + 1)..lexed[Len(lexed)].i : source[k] = "\""

\* The last pull of the lexer yielded string content.
content_pulled ==
    /\ lexed # <<>>
    /\ lexed[Len(lexed)].out = "some"
    /\ lexed[Len(lexed)].tk.k = "StringContent"

\* C25: in the output of the lexer a StringContent token is never empty,
\* holds no quotation mark and comes right behind a quote-mark token; every
\* quotation mark the lexer passes yields a quote-mark token of its own, so
\* that "" yields two quote-mark tokens one behind the other with no content
\* between them.
C25_QuotesAndContent ==
    LET from == passed_before + 1
        to   == IF lexed = <<>> THEN 0 ELSE lexed[Len(lexed)].i
    IN  /\ content_pulled =>
               /\ lexed[Len(lexed)].tk.s # <<>>
               /\ lexed[Len(lexed)].tk.s = SubSeq(source, from, to)
               /\ \A k \in from..to : source[k] # "\""
               /\ Len(lexed) > 1
               /\ IF Len(lexed) > 1
                  THEN /\ lexed[Len(lexed) - 1].out = "some"
                       /\ lexed[Len(lexed) - 1].tk = Token("StringToken")
                  ELSE FALSE
        /\ quote_passed =>
               /\ lexed[Len(lexed)].out = "some"
               /\ lexed[Len(lexed)].tk = Token("StringToken")
               /\ to = from
               /\ lexed[Len(lexed)].p = bytes(source, 1, from - 1) + 1
               /\ (from > 1 /\ source[from - 1] = "\"") =>
                      IF Len(lexed) > 1
                      THEN /\ lexed[Len(lexed) - 1].out = "some"
                           /\ lexed[Len(lexed) - 1].tk = Token("StringToken")
                      ELSE FALSE

C25_Witness ==
    /\ quote_passed
    /\ passed_before >= 1
    /\ source[passed_before] = "\""
    /\ lexed[Len(lexed)].tk = Token("StringToken")
    /\ lexed[Len(lexed) - 1].tk = Token("StringToken")

\* The expectation sets the validator writes.
ExpectationSets ==
    {<<"ObjectBegin">>, <<"MemberName", "ObjectEnd">>, <<"MemberValue", "ObjectBegin">>,
     <<"MemberName">>, <<"ObjectEnd">>}

\* C26: in every state of the validator the expectation set is non-empty and
\* one of {ObjectBegin}, {MemberName, ObjectEnd}, {MemberValue, ObjectBegin},
\* {MemberName}, {ObjectEnd}; MemberName and MemberValue are never in it
\* together, so string content is never both a name and a value.
C26_ExpectationSets ==
    /\ pp.expect # <<>>
    /\ pp.expect \in ExpectationSets
    /\ ~(do_we_expect(pp, "MemberName") /\ do_we_expect(pp, "MemberValue"))
    /\ (last.out = "ok" /\ last.ltk.k = "StringContent") =>
           IF name_expected
           THEN last.tk.t = "MemberName"
           ELSE last.tk.t = "MemberValue"

C26_Witness ==
    /\ pp.expect = <<"MemberValue", "ObjectBegin">>
    /\ last.expect = <<"MemberName">>
    /\ last.out = "ok"
    /\ \E k \in 1..Len(items) :
           /\ items[k].out = "ok"
           /\ items[k].tk.t = "MemberValue"
           /\ items[k].tk.v.t = "String"

\* C27: once the lexer has yielded no-more-items every later pull yields
\* no-more-items too, whatever the text, a text that begins with a digit, a
\* dot or a letter included.
C27_ExhaustionIsPermanent ==
    \A j, k \in 1..Len(lexed) :
        (j < k /\ lexed[j].out = "none") => lexed[k].out = "none"

\* A step of parse that goes on to another round of parse_object has taken
\* at least one token from the lexer, of at least one character; an array it
\* has yielded has taken the two brackets, its elements and the
\* value-separators between them.
round_consumes ==
    pc' \notin {"returned", "panicked"} =>
        /\ last'.some
        /\ last'.after.iter.i > pp.lexer.iter.i
        /\ pp'.lexer.iter.i >= last'.after.iter.i
        /\ last'.tk.t = "Array" =>
               pp'.lexer.iter.i - pp.lexer.iter.i >= 2 * Len(last'.tk.a) + 1

\* C28: for every finite text JParser::parse ends, by a return or by an
\* abort: every pull of the lexer that yields a token passes at least one
\* character, every pull of the validator takes at least one lexer token, and
\* every round of the array loop and of the loop of parse_object takes at
\* least one token.
C28_ParseTerminates == [][round_consumes]_vars /\ <>ended

C28_Witness ==
    /\ ended
    /\ pp.lexer.iter.i = Len(source)
    /\ Len(items) >= 8
    /\ \E k \in 1..Len(items) : items[k].tk.t = "Array" /\ Len(items[k].tk.a) = 3

\* C29: the validator yields MemberName, MemberValue and Array tokens only
\* while an object is open (depth 1 at least); once the top-level object has
\* closed no member token is yielded any more, even when a value-separator
\* follows the closing brace.
C29_MembersInsideObjects ==
    (last.out = "ok" /\ last.tk.t \in {"MemberName", "MemberValue", "Array"}) =>
        last.object_cnt >= 1

\* C30: parse returns as soon as the top-level object closes: on the text of
\* a document with anything behind the closing brace it gives what it gives
\* on the document alone, the object of the document, and the last item it
\* has pulled from the validator is the ObjectEnd of that brace.
C30_SameResultWhateverFollows ==
    (doc # NoDoc /\ ~has_empty_string /\ ended) =>
        /\ pc = "returned"
        /\ result = Ok(doc[1])
        /\ items[Len(items)].out = "ok"
        /\ items[Len(items)].tk.t = "ObjectEnd"

=============================================================================
